---- MODULE Spec2Model ----
(***************************************************************************)
(* A model of the two clustering engines of biogo/cluster:                 *)
(*   - the R^2 k-means engine (Kmeans: Seed, nearest, Cluster, Within,     *)
(*     Clusters), and                                                      *)
(*   - the mean shift engine (MeanShift.Cluster, the Uniform and           *)
(*     TruncGauss shifters, collate).                                      *)
(* Coordinates of the data are integers.  float64 arithmetic is modelled   *)
(* exactly where the values stay rational with a small denominator (the    *)
(* k-means centers, the collated centers) and in fixed point with Scale    *)
(* units per 1.0 for the mean shift modes.  NaN (the 0*Inf of an empty     *)
(* k-means cluster) is a center whose den field is 0.                      *)
(***************************************************************************)
EXTENDS Integers, Sequences, FiniteSets, TLC

VARIABLES
    kmValues,   \* Kmeans.values: sequence of [x, y, cluster]
    kmMeans,    \* Kmeans.means: sequence of [x, y, den, count]
    kmMeansNil, \* km.means == nil (a nil slice has length 0 as well)
    kmPc,       \* position of the k-means caller: idle, seeding, lloyd, panicked
    kmOp,       \* the method called last: New, Seed, Cluster
    kmArg,      \* the argument k of the last Seed call
    kmI,        \* loop variable i of Seed
    kmD,        \* the slice d of Seed (sampling weights of the last round)
    kmRet,      \* outcome of the last call: none, ok, no centers, panic
    kmIter,     \* Lloyd iterations completed by the running Cluster call
    kmClustered, \* history: a Cluster call has got past the no-centers check
    kmOut       \* what Total, Within and Means returned since the last Seed
                \* or Cluster call: [total, within, centers], <<>> when not
                \* called

kmVars == <<kmValues, kmMeans, kmMeansNil, kmPc, kmOp, kmArg, kmI, kmD, kmRet, kmIter,
           kmClustered, kmOut>>

VARIABLES
    msValues,     \* MeanShift.values: sequence of [x, y, w, cluster]
    msPoints,     \* the points of the Shifter's tree (vals of Init): sequence
                  \* of [x, y, w], indexed as the data
    msKernel,     \* the Shifter k: [kind, h, oversample, unit]; h and the
                  \* coordinates of the data are in units of 1/unit
    msTol,        \* MeanShift.tol in tenths of a squared unit of length
    msMaxIter,    \* MeanShift.maxIter
    msModes,      \* the Shifter's centers: sequence of [x, y, nan, ID], x and y
                  \* in units of 1/Scale
    msCenters,    \* MeanShift.centers: sequence of [x, y, den, indices], at
                  \* (x/(den*Scale), y/(den*Scale)); indices is also ms.ci
    msCentersNil, \* ms.centers == nil
    msPc,         \* position of the mean shift caller: idle, shifting, panicked
    msOp,         \* the method called last: New, Cluster
    msI,          \* loop variable i of Cluster
    msErr,        \* err # nil in Cluster
    msDelta,      \* the delta returned by the last Shift: [num, nan], num in
                  \* units of 1/Scale^2
    msShifts,     \* Shift calls made by the running or last Cluster call
    msRet,        \* outcome of the last Cluster call: none, nil, error
    msOut         \* what Total, Within and Centers returned since the last
                  \* Cluster call: [total, within, centers], <<>> when not
                  \* called

msVars == <<msValues, msPoints, msKernel, msTol, msMaxIter, msModes, msCenters, msCentersNil,
            msPc, msOp, msI, msErr, msDelta, msShifts, msRet, msOut>>

vars == <<kmVars, msVars>>

\* ------------------------------------------------------------------------
\* Bounds of the model.
\* ------------------------------------------------------------------------

\* rand.Float64() is drawn from {0/DrawDen, ..., (DrawDen-1)/DrawDen}.
DrawDen == 2

\* Seed is called with k in -1 .. MaxK, more than the number of points of
\* the smaller data sets.
MaxK == 4

\* kmIter counts the Lloyd iterations of one Cluster call up to MaxLloyd.
MaxLloyd == 6

\* The data sets the k-means engine is constructed over are the first
\* NumKmData entries of KmDataSets.
NumKmData == 3

\* The loop of MeanShift.Cluster is followed for at most MaxShifts Shift calls.
MaxShifts == 6

\* MeanShift engines are built with maxIter in 0 .. MaxMaxIter.
MaxMaxIter == 2

\* The data sets the mean shift engine is constructed over are the first
\* NumMsData entries of MsDataSets.
NumMsData == 5

\* Total, Within and Means or Centers were not called yet.
NoOut == [total |-> <<>>, within |-> <<>>, centers |-> <<>>]

\* Data sets for NewKmeans: three collinear points that end with a point
\* equally near to two centers, five points, a repeated point, two points.
KmDataSets ==
    << << <<3, 0>>, <<2, 0>>, <<0, 0>> >>,
       << <<2, 0>>, <<3, 1>>, <<0, 2>>, <<3, 0>>, <<1, 2>> >>,
       << <<1, 1>>, <<1, 1>>, <<3, 2>> >>,
       << <<0, 0>>, <<4, 0>> >> >>

\* ------------------------------------------------------------------------
\* k-means: helpers
\* ------------------------------------------------------------------------

\* center{}: the zero value of a center, at the origin with count 0.
ZeroCenter == [x |-> 0, y |-> 0, den |-> 1, count |-> 0]

\* A center holding the coordinates of a data point (km.means[i].val = v.val).
CenterAt(v) == [x |-> v.x, y |-> v.y, den |-> 1, count |-> 0]

\* xd*xd + yd*yd for the point v and the center m, as the fraction num/den;
\* den = 0 is NaN (any arithmetic on a NaN coordinate gives NaN).
SqDist(v, m) ==
    [num |-> (v.x * m.den - m.x) * (v.x * m.den - m.x)
           + (v.y * m.den - m.y) * (v.y * m.den - m.y),
     den |-> m.den * m.den]

\* The comparison of nearest written d <= min: a later center at the same
\* distance replaces the earlier one.
FloatLessOrEqual(d, min) ==
    /\ d.den # 0
    /\ min.den # 0
    /\ d.num * min.den <= min.num * d.den

\* d < min on float64: false whenever either side is NaN.
FloatLess(d, min) ==
    /\ d.den # 0
    /\ min.den # 0
    /\ d.num * min.den < min.num * d.den

RECURSIVE nearestFrom(_, _, _, _, _)
\* The loop of nearest: centers i .. len(km.means)-1 (0-based i), best so far
\* c at distance min.
nearestFrom(ms, v, i, c, min) ==
    IF i >= Len(ms) THEN [c |-> c, min |-> min]
    ELSE LET d == SqDist(v, ms[i + 1])
         IN  IF FloatLess(d, min)
             THEN nearestFrom(ms, v, i + 1, i, d)
             ELSE nearestFrom(ms, v, i + 1, c, min)

\* Kmeans.nearest: index of the nearest center and the squared distance to it.
nearest(ms, v) == nearestFrom(ms, v, 1, 0, SqDist(v, ms[1]))

\* The set of elements of a sequence.
Range(s) == {s[i] : i \in 1..Len(s)}

RECURSIVE SumOfSet(_, _)
\* Sum of f[i] over the finite set S.
SumOfSet(f, S) ==
    IF S = {} THEN 0
    ELSE LET e == CHOOSE e \in S : TRUE IN f[e] + SumOfSet(f, S \ {e})

RECURSIVE SumSeq(_)
\* Sum of the elements of a sequence.
SumSeq(s) == IF s = <<>> THEN 0 ELSE Head(s) + SumSeq(Tail(s))

\* The weights d[j] of one round of Seed: the min returned by nearest over
\* the whole means slice.  All centers are data points or zero centers
\* during Seed, so the distance is the integer min.num.
seedWeights(ms, vals) == [j \in 1..Len(vals) |-> nearest(ms, vals[j]).min.num]

RECURSIVE pickFrom(_, _, _, _, _)
\* for sum = d[0]; sum < target; sum += d[j] { j++ } with target = a/DrawDen
\* of total; j is 0-based, acc is the running sum.
pickFrom(d, j, acc, a, total) ==
    IF acc * DrawDen < a * total
    THEN pickFrom(d, j + 1, acc + d[j + 2], a, total)
    ELSE j

\* The index chosen by the cumulative-sum inversion of Seed for the draw a.
pick(d, a) == pickFrom(d, 0, d[1], a, SumSeq(d))

\* The first loop of Cluster and the last of each Lloyd iteration:
\* every value gets the index of its nearest center.
assign(ms, vals) ==
    [i \in 1..Len(vals) |-> [vals[i] EXCEPT !.cluster = nearest(ms, vals[i]).c]]

\* Sum of f over the values whose cluster is c.
RECURSIVE sumOver(_, _, _, _)
sumOver(vals, c, i, coord) ==
    IF i > Len(vals) THEN 0
    ELSE (IF vals[i].cluster = c
          THEN (IF coord = "x" THEN vals[i].x
                ELSE IF coord = "y" THEN vals[i].y ELSE 1)
          ELSE 0) + sumOver(vals, c, i + 1, coord)

\* The recentering with the y sum written km.means[v.cluster].y += v.x.
recenterYFromX(ms, vals) ==
    [i \in 1..Len(ms) |->
        LET cnt == sumOver(vals, i - 1, 1, "n")
        IN  IF cnt = 0
            THEN [x |-> 0, y |-> 0, den |-> 0, count |-> 0]
            ELSE [x |-> sumOver(vals, i - 1, 1, "x"),
                  y |-> sumOver(vals, i - 1, 1, "x"),
                  den |-> cnt, count |-> cnt]]

\* The recentering of one Lloyd iteration: sums and counts per center, then
\* x *= 1/count (0 * +Inf = NaN for an empty center).
recenter(ms, vals) ==
    [i \in 1..Len(ms) |->
        LET cnt == sumOver(vals, i - 1, 1, "n")
        IN  IF cnt = 0
            THEN [x |-> 0, y |-> 0, den |-> 0, count |-> 0]
            ELSE [x |-> sumOver(vals, i - 1, 1, "x"),
                  y |-> sumOver(vals, i - 1, 1, "y"),
                  den |-> cnt, count |-> cnt]]

\* ------------------------------------------------------------------------
\* k-means: operations
\* ------------------------------------------------------------------------

\* NewKmeans / convert: values from the data, cluster 0, no means.
KmInit ==
    /\ \E ds \in 1..NumKmData :
          kmValues = [i \in 1..Len(KmDataSets[ds]) |->
                         [x |-> KmDataSets[ds][i][1],
                          y |-> KmDataSets[ds][i][2],
                          cluster |-> 0]]
    /\ kmMeans = <<>>
    /\ kmMeansNil = TRUE
    /\ kmPc = "idle"
    /\ kmOp = "New"
    /\ kmArg = 0
    /\ kmI = 0
    /\ kmD = <<>>
    /\ kmRet = "none"
    /\ kmIter = 0
    /\ kmClustered = FALSE
    /\ kmOut = NoOut

\* Seed(k) with the slots 1..k-1 of the earlier km.means kept instead of a
\* slice from make.
SeedCallReusingMeans(k) ==
    /\ kmPc = "idle"
    /\ kmOp' = "Seed"
    /\ kmArg' = k
    /\ kmD' = <<>>
    /\ kmIter' = 0
    /\ kmOut' = NoOut
    /\ UNCHANGED <<kmValues, kmClustered>>
    /\ IF k < 0
       THEN /\ kmPc' = "panicked"
            /\ kmRet' = "panic"
            /\ UNCHANGED <<kmMeans, kmMeansNil, kmI>>
       ELSE IF k = 0
       THEN /\ kmMeans' = <<>>
            /\ kmMeansNil' = FALSE
            /\ kmPc' = "panicked"
            /\ kmRet' = "panic"
            /\ UNCHANGED kmI
       ELSE \E r \in 1..Len(kmValues) :
            /\ kmMeansNil' = FALSE
            /\ kmMeans' = [i \in 1..k |->
                              IF i = 1 THEN CenterAt(kmValues[r])
                              ELSE IF i <= Len(kmMeans) THEN kmMeans[i]
                              ELSE ZeroCenter]
            /\ IF k = 1
               THEN kmPc' = "idle" /\ kmRet' = "ok" /\ kmI' = 0
               ELSE kmPc' = "seeding" /\ kmRet' = "none" /\ kmI' = 1

\* Seed(k), up to the first center: make([]center, k) panics for k < 0,
\* km.means[0] panics for k = 0 after km.means was replaced; k = 1 returns.
SeedCall(k) ==
    /\ kmPc = "idle"
    /\ kmOp' = "Seed"
    /\ kmArg' = k
    /\ kmD' = <<>>
    /\ kmIter' = 0
    /\ kmOut' = NoOut
    /\ UNCHANGED <<kmValues, kmClustered>>
    /\ IF k < 0
       THEN /\ kmPc' = "panicked"
            /\ kmRet' = "panic"
            /\ UNCHANGED <<kmMeans, kmMeansNil, kmI>>
       ELSE IF k = 0
       THEN /\ kmMeans' = <<>>
            /\ kmMeansNil' = FALSE
            /\ kmPc' = "panicked"
            /\ kmRet' = "panic"
            /\ UNCHANGED kmI
       ELSE \E r \in 1..Len(kmValues) :
            /\ kmMeansNil' = FALSE
            /\ kmMeans' = [i \in 1..k |->
                              IF i = 1 THEN CenterAt(kmValues[r]) ELSE ZeroCenter]
            /\ IF k = 1
               THEN kmPc' = "idle" /\ kmRet' = "ok" /\ kmI' = 0
               ELSE kmPc' = "seeding" /\ kmRet' = "none" /\ kmI' = 1

\* One round of the loop of Seed: the weights of all points, a draw, and
\* the next center.
SeedRound ==
    /\ kmPc = "seeding"
    /\ LET d == seedWeights(kmMeans, kmValues)
       IN  /\ kmD' = d
           /\ \E a \in 0..(DrawDen - 1) :
                 kmMeans' = [kmMeans EXCEPT
                                ![kmI + 1] = [@ EXCEPT
                                    !.x = kmValues[pick(d, a) + 1].x,
                                    !.y = kmValues[pick(d, a) + 1].y]]
    /\ kmI' = kmI + 1
    /\ IF kmI + 1 < kmArg
       THEN kmPc' = "seeding" /\ kmRet' = "none"
       ELSE kmPc' = "idle" /\ kmRet' = "ok"
    /\ UNCHANGED <<kmValues, kmMeansNil, kmOp, kmArg, kmIter, kmClustered, kmOut>>

\* Cluster() without the len(km.means) == 0 check: the first call of nearest
\* indexes km.means[0] of an empty slice and panics.
ClusterCallUnchecked ==
    /\ kmPc = "idle"
    /\ kmOp' = "Cluster"
    /\ kmD' = <<>>
    /\ kmIter' = 0
    /\ kmClustered' = (kmClustered \/ Len(kmMeans) # 0)
    /\ kmOut' = NoOut
    /\ UNCHANGED <<kmMeansNil, kmArg, kmI>>
    /\ IF Len(kmMeans) = 0
       THEN /\ kmRet' = "panic"
            /\ kmPc' = "panicked"
            /\ UNCHANGED <<kmValues, kmMeans>>
       ELSE /\ kmValues' = assign(kmMeans, kmValues)
            /\ kmPc' = "lloyd"
            /\ kmRet' = "none"
            /\ UNCHANGED kmMeans

\* Cluster(), up to the Lloyd loop: the no-centers check and the first
\* assignment.
ClusterCall ==
    /\ kmPc = "idle"
    /\ kmOp' = "Cluster"
    /\ kmD' = <<>>
    /\ kmIter' = 0
    /\ kmClustered' = (kmClustered \/ Len(kmMeans) # 0)
    /\ kmOut' = NoOut
    /\ UNCHANGED <<kmMeansNil, kmArg, kmI>>
    /\ IF Len(kmMeans) = 0
       THEN /\ kmRet' = "no centers"
            /\ UNCHANGED <<kmValues, kmMeans, kmPc>>
       ELSE /\ kmValues' = assign(kmMeans, kmValues)
            /\ kmPc' = "lloyd"
            /\ kmRet' = "none"
            /\ UNCHANGED kmMeans

\* The Lloyd loop with deltas declared before the loop and never reset: once
\* an iteration has changed a cluster the loop is not left any more.
LloydIterDeltasKept ==
    /\ kmPc = "lloyd"
    /\ LET ms == recenter(kmMeans, kmValues)
           vs == assign(ms, kmValues)
       IN  /\ kmMeans' = ms
           /\ kmValues' = vs
           /\ IF vs = kmValues /\ kmIter = 0
              THEN kmPc' = "idle" /\ kmRet' = "ok"
              ELSE kmPc' = "lloyd" /\ kmRet' = "none"
    /\ kmIter' = (IF kmIter < MaxLloyd THEN kmIter + 1 ELSE kmIter)
    /\ UNCHANGED <<kmMeansNil, kmOp, kmArg, kmI, kmD, kmClustered, kmOut>>

\* One iteration of the Lloyd loop: recenter, reassign, stop when no value
\* changed its cluster.
LloydIter ==
    /\ kmPc = "lloyd"
    /\ LET ms == recenter(kmMeans, kmValues)
           vs == assign(ms, kmValues)
       IN  /\ kmMeans' = ms
           /\ kmValues' = vs
           /\ IF vs = kmValues
              THEN kmPc' = "idle" /\ kmRet' = "ok"
              ELSE kmPc' = "lloyd" /\ kmRet' = "none"
    /\ kmIter' = (IF kmIter < MaxLloyd THEN kmIter + 1 ELSE kmIter)
    /\ UNCHANGED <<kmMeansNil, kmOp, kmArg, kmI, kmD, kmClustered, kmOut>>


\* ------------------------------------------------------------------------
\* mean shift: data, kernels, fixed point
\* ------------------------------------------------------------------------

\* Data sets as <<x, y, weight>>: points on a line, two crosses of points,
\* points of different weights, a point whose Weighter gives 0, four points.
MsDataSets ==
    << << <<0, 1, 1>>, <<1, 2, 1>>, <<2, 3, 1>>, <<3, 4, 1>> >>,
       << <<2, 3, 1>>, <<1, 2, 1>>, <<2, 2, 1>>, <<2, 1, 1>>, <<3, 2, 1>>,
          <<2, 4, 1>>, <<2, 0, 1>> >>,
       << <<4, 6, 1>>, <<2, 4, 1>>, <<4, 4, 1>>, <<4, 2, 1>>, <<6, 4, 1>>,
          <<4, 8, 1>>, <<4, 0, 1>>, <<2, 1, 1>> >>,
       << <<0, 0, 1>>, <<1, 0, 3>>, <<3, 3, 2>> >>,
       << <<0, 0, 1>>, <<1, 0, 2>>, <<3, 3, 0>> >>,
       << <<0, 0, 1>>, <<0, 2, 1>>, <<1, 1, 1>>, <<4, 4, 1>> >> >>

\* The kernels: NewUniform(h) and NewTruncGauss(h, oversample) with h = 1
\* and h = 2 over data on the integer grid, and NewTruncGauss(1/3, 1) over
\* data on the grid of thirds.
MsKernels ==
    { [kind |-> "Uniform", h |-> 1, oversample |-> 1, unit |-> 1],
      [kind |-> "Uniform", h |-> 2, oversample |-> 1, unit |-> 1],
      [kind |-> "TruncGauss", h |-> 1, oversample |-> 1, unit |-> 1],
      [kind |-> "TruncGauss", h |-> 1, oversample |-> 3, unit |-> 1],
      [kind |-> "TruncGauss", h |-> 1, oversample |-> 1, unit |-> 3] }

\* The tolerances, in tenths of a squared unit: -1, 0, 0.1 and 2.
MsTols == {0 - 10, 0, 1, 20}

\* Units of the fixed point coordinates of the modes per 1.0: the least
\* common multiple of 1..6, so that means of up to 6 points are exact.
Scale == 2 * 2 * 3 * 5

\* round(num / den) for num >= 0, den > 0.
RoundDiv(num, den) == (2 * num + den) \div (2 * den)

\* math.Exp(x) for x = q/8 (x rounded down to eighths), times 16.
ExpTab == <<16, 18, 21, 23, 26, 30, 34, 38, 43, 49, 56, 63, 72, 81, 92, 104, 118>>

\* kdtree.NewDistKeeper(h * h) in NewUniform and
\* kdtree.NewDistKeeper(h * h * oversample) in NewTruncGauss: the squared
\* radius kept in the sentinel of s.hits, in squared units.
hitsDist(k) == IF k.kind = "Uniform" THEN k.h * k.h ELSE k.h * k.h * k.oversample

\* Uniform.Bandwidth returns the Dist of the sentinel of s.hits,
\* TruncGauss.Bandwidth returns s.h.  The value is given in squared units,
\* as collate uses it: the number h/unit is h * unit squared units.
Bandwidth(k) == IF k.kind = "Uniform" THEN hitsDist(k) ELSE k.h * k.unit

\* shiftPoint.Distance between an original point v and a mode c, in units
\* of 1/Scale^2.
PointModeSqDist(v, c) ==
    (v.x * Scale - c.x) * (v.x * Scale - c.x) + (v.y * Scale - c.y) * (v.y * Scale - c.y)

\* shiftPoint.Distance between two modes, in units of 1/Scale^2.
ModeSqDist(c, e) == (c.x - e.x) * (c.x - e.x) + (c.y - e.y) * (c.y - e.y)

\* s.tree.NearestSet(s.hits, c) keeping only the points nearer than the
\* radius of s.hits: a point at the radius itself is not a hit.
NearestSetDataStrict(vals, k, c) ==
    {j \in 1..Len(vals) :
        ~c.nan /\ PointModeSqDist(vals[j], c) < hitsDist(k) * Scale * Scale}

\* s.tree.NearestSet(s.hits, c): the original points within the squared
\* radius of s.hits of the mode c (none for a NaN mode).
NearestSetData(vals, k, c) ==
    {j \in 1..Len(vals) :
        ~c.nan /\ PointModeSqDist(vals[j], c) <= hitsDist(k) * Scale * Scale}

\* The kernel weight of the hit j for the mode c: h.Weight for Uniform,
\* h.Weight * math.Exp(Distance * inv) with inv = 1/(2*h*h) for TruncGauss,
\* times 16.
kfn(vals, k, c, j) ==
    IF k.kind = "Uniform" THEN vals[j].w
    ELSE vals[j].w *
         ExpTab[((8 * PointModeSqDist(vals[j], c)) \div (2 * k.h * k.h * Scale * Scale)) + 1]

\* One pass of the loop of Shift without s.cn[j] /= div: the mode moves to
\* the weighted sum of the hits.
shiftModeUndivided(vals, k, c) ==
    LET hits == NearestSetData(vals, k, c)
        sx == SumOfSet([j \in 1..Len(vals) |-> vals[j].x * kfn(vals, k, c, j)], hits)
        sy == SumOfSet([j \in 1..Len(vals) |-> vals[j].y * kfn(vals, k, c, j)], hits)
    IN  [c EXCEPT !.x = sx * Scale, !.y = sy * Scale]

\* One pass of the loop of Shift for the mode c: the weighted mean of the
\* hits (NaN when the weights sum to 0).
shiftMode(vals, k, c) ==
    LET hits == NearestSetData(vals, k, c)
        div == SumOfSet([j \in 1..Len(vals) |-> kfn(vals, k, c, j)], hits)
        sx == SumOfSet([j \in 1..Len(vals) |-> vals[j].x * kfn(vals, k, c, j)], hits)
        sy == SumOfSet([j \in 1..Len(vals) |-> vals[j].y * kfn(vals, k, c, j)], hits)
    IN  IF div = 0
        THEN [c EXCEPT !.x = 0, !.y = 0, !.nan = TRUE]
        ELSE [c EXCEPT !.x = RoundDiv(sx * Scale, div), !.y = RoundDiv(sy * Scale, div)]

\* Uniform.Shift and TruncGauss.Shift: every mode moves to the weighted
\* mean of its hits; delta is the sum of the squared displacements.
Shift(vals, k, modes) ==
    LET new == [i \in 1..Len(modes) |-> shiftMode(vals, k, modes[i])]
    IN  [modes |-> new,
         delta |-> [num |-> SumOfSet([i \in 1..Len(modes) |->
                                         IF new[i].nan THEN 0
                                         ELSE ModeSqDist(modes[i], new[i])],
                                     1..Len(modes)),
                    nan |-> \E i \in 1..Len(modes) : new[i].nan]]

\* delta <= ms.tol on float64 (false for NaN), tol in tenths.
Converged(delta, tol) == ~delta.nan /\ delta.num * 10 <= tol * Scale * Scale

\* ------------------------------------------------------------------------
\* mean shift: collate
\* ------------------------------------------------------------------------

\* ct.NearestSet(neighbors, kc.Index(i)): the modes within the squared
\* distance h of the mode i, nearest first (equal distances in index order).
RECURSIVE sortByDist(_, _, _)
sortByDist(modes, i, S) ==
    IF S = {} THEN <<>>
    ELSE LET m == CHOOSE m \in S : \A o \in S :
                      \/ ModeSqDist(modes[m], modes[i]) < ModeSqDist(modes[o], modes[i])
                      \/ /\ ModeSqDist(modes[m], modes[i]) = ModeSqDist(modes[o], modes[i])
                         /\ m <= o
         IN  <<m>> \o sortByDist(modes, i, S \ {m})

NearestSetModes(modes, h, i) ==
    sortByDist(modes, i,
        {j \in 1..Len(modes) :
            /\ ~modes[i].nan
            /\ ~modes[j].nan
            /\ ModeSqDist(modes[j], modes[i]) <= h * Scale * Scale})

\* The neighbours.Heap of every mode and the sums of their coordinates:
\* both depend on the positions of the modes only, not on their IDs.
neighborhoods(modes, h) ==
    [i \in 1..Len(modes) |->
        LET nb == NearestSetModes(modes, h, i)
        IN  [i |-> i,
             nb |-> nb,
             x |-> SumOfSet([j \in 1..Len(modes) |-> modes[j].x], Range(nb)),
             y |-> SumOfSet([j \in 1..Len(modes) |-> modes[j].y], Range(nb))]] \o <<>>

\* The IDs still unclaimed (>= 0) among the neighbours, in their order.
RECURSIVE claimed(_, _)
claimed(ids, nb) ==
    IF nb = <<>> THEN <<>>
    ELSE (IF ids[Head(nb)] >= 0 THEN <<ids[Head(nb)]>> ELSE <<>>)
         \o claimed(ids, Tail(nb))

\* _, d := centers.Nearest(wp); d == 0: a stored center is at the position
\* of wp (the empty tree gives d = +Inf).
NearestIsZero(centers, wp) ==
    \E c \in 1..Len(centers) :
        /\ centers[c].x * wp.den = wp.x * centers[c].den
        /\ centers[c].y * wp.den = wp.y * centers[c].den

\* One pass of the loop of collate, for the mode whose neighbours are nh:
\* wp claims the unclaimed neighbours of the mode, is placed at the mean of
\* all its neighbours and is inserted unless a stored center is at distance
\* 0.  ids are the IDs of the modes, centers the stored points in insertion
\* order; seed is the original index of the mode wp was made for.
collateStep(nh, st) ==
    LET wp == [x |-> nh.x,
               y |-> nh.y,
               den |-> IF nh.nb = <<>> THEN 1 ELSE Len(nh.nb),
               indices |-> claimed(st.ids, nh.nb),
               seed |-> nh.i - 1]
    IN  [ids |-> [j \in 1..Len(st.ids) |->
                     IF j \in Range(nh.nb) THEN 0 - 1 ELSE st.ids[j]],
         centers |-> IF NearestIsZero(st.centers, wp)
                     THEN st.centers
                     ELSE Append(st.centers, wp)]

\* plane.Less on the coordinate dim (0 is x, 1 is y): false for NaN.
planeLess(modes, dim, a, b) ==
    /\ ~modes[a].nan
    /\ ~modes[b].nan
    /\ IF dim = 0 THEN modes[a].x < modes[b].x ELSE modes[a].y < modes[b].y

\* shiftPoints.Pivot on the modes S: plane.Pivot takes kdtree.MedianOfRandoms
\* as pivot and kdtree.Partition swaps the slice in place around it.  The
\* pivot p is a median of S on the coordinate dim: the half of S to its left
\* holds no mode above p, the rest to its right no mode below p (modes that
\* compare equal on either side).
pivots(modes, S, dim) ==
    UNION { LET below == {k \in S : planeLess(modes, dim, k, p)}
                above == {k \in S : planeLess(modes, dim, p, k)}
            IN  {<<p, below \cup E>> :
                    E \in {F \in SUBSET (S \ (below \cup above \cup {p})) :
                              Cardinality(below \cup F) = Cardinality(S) \div 2}} :
            p \in S }

\* ct = kdtree.New(kc, false) reorders kc (the slice s.centers itself) into
\* the layout of a k-d tree, left part, pivot, right part, alternating the
\* dimension; the loop of collate then runs over kc in that order.  The set
\* of the results of the loop over the modes S from the state st.
RECURSIVE collateOver(_, _, _, _, _)
collateOver(modes, nhs, S, dim, st) ==
    IF S = {} THEN {st}
    ELSE UNION {
           UNION { collateOver(modes, nhs, S \ (pl[2] \cup {pl[1]}), 1 - dim,
                               collateStep(nhs[pl[1]], lst)) :
                   lst \in collateOver(modes, nhs, pl[2], 1 - dim, st) } :
           pl \in pivots(modes, S, dim) }

\* collate: the stored centers that have members, for every order the
\* k-d tree construction can leave the modes in.
collate(modes, h) ==
    {[modes |-> [j \in 1..Len(modes) |-> [modes[j] EXCEPT !.ID = r.ids[j]]],
      centers |-> SelectSeq(r.centers, LAMBDA c : c.indices # <<>>)] :
        r \in collateOver(modes, neighborhoods(modes, h), 1..Len(modes), 0,
                          [ids |-> [j \in 1..Len(modes) |-> modes[j].ID],
                           centers |-> <<>>])}

\* The loop over cen at the end of MeanShift.Cluster: ms.centers[i] takes
\* the point and the members of cen[i].
asCenters(cen) ==
    [i \in 1..Len(cen) |->
        [x |-> cen[i].x, y |-> cen[i].y, den |-> cen[i].den, indices |-> cen[i].indices]]

\* The loop over cen at the end of MeanShift.Cluster with the point of the
\* center written into its members as well (ms.values[j].pnt = c.V()), in
\* whole units.
tagValuesAtCenter(vals, cen) ==
    [j \in 1..Len(vals) |->
        IF \E i \in 1..Len(cen) : (j - 1) \in Range(cen[i].indices)
        THEN LET i == CHOOSE i \in 1..Len(cen) :
                          /\ (j - 1) \in Range(cen[i].indices)
                          /\ \A e \in 1..Len(cen) :
                                (j - 1) \in Range(cen[e].indices) => e <= i
             IN  [vals[j] EXCEPT !.cluster = i - 1,
                                 !.x = cen[i].x \div (cen[i].den * Scale),
                                 !.y = cen[i].y \div (cen[i].den * Scale)]
        ELSE vals[j]]

\* The loop over cen at the end of MeanShift.Cluster: the cluster of every
\* member of the center i becomes i.
tagValues(vals, cen) ==
    [j \in 1..Len(vals) |->
        IF \E i \in 1..Len(cen) : (j - 1) \in Range(cen[i].indices)
        THEN [vals[j] EXCEPT !.cluster =
                 (CHOOSE i \in 1..Len(cen) :
                     /\ (j - 1) \in Range(cen[i].indices)
                     /\ \A e \in 1..Len(cen) :
                           (j - 1) \in Range(cen[e].indices) => e <= i) - 1]
        ELSE vals[j]]

\* MeanShift.Within (called with ms.centers # nil and not empty): per
\* center the sum of squared distances of the values tagged with it, as
\* num/den.
Within(vals, cen) ==
    [c \in 1..Len(cen) |->
        [num |-> SumOfSet([j \in 1..Len(vals) |->
                    (cen[c].x - vals[j].x * cen[c].den * Scale)
                        * (cen[c].x - vals[j].x * cen[c].den * Scale)
                    + (cen[c].y - vals[j].y * cen[c].den * Scale)
                        * (cen[c].y - vals[j].y * cen[c].den * Scale)],
                    {j \in 1..Len(vals) : vals[j].cluster = c - 1}),
         den |-> cen[c].den * Scale * cen[c].den * Scale]]

\* MeanShift.Within: nil while ms.centers is nil; the loop over the values
\* reads ms.centers[0] and ms.centers[v.cluster], which is out of range when
\* there are fewer centers.
MsWithin(vals, cen, isNil) ==
    LET panics == /\ ~isNil
                  /\ Len(vals) > 0
                  /\ \/ Len(cen) = 0
                     \/ \E j \in 1..Len(vals) : vals[j].cluster >= Len(cen)
    IN  [nil |-> isNil,
         panic |-> panics,
         ss |-> IF isNil \/ panics THEN <<>> ELSE Within(vals, cen)]

\* ------------------------------------------------------------------------
\* mean shift: operations
\* ------------------------------------------------------------------------

\* New: k.Init(data) puts one mode on every point and builds the tree over
\* the points, convert copies the data.
MsInit ==
    /\ \E ds \in 1..NumMsData :
          /\ msValues = [i \in 1..Len(MsDataSets[ds]) |->
                            [x |-> MsDataSets[ds][i][1], y |-> MsDataSets[ds][i][2],
                             w |-> MsDataSets[ds][i][3], cluster |-> 0]]
          /\ msPoints = [i \in 1..Len(MsDataSets[ds]) |->
                            [x |-> MsDataSets[ds][i][1], y |-> MsDataSets[ds][i][2],
                             w |-> MsDataSets[ds][i][3]]]
          /\ msModes = [i \in 1..Len(MsDataSets[ds]) |->
                           [x |-> MsDataSets[ds][i][1] * Scale,
                            y |-> MsDataSets[ds][i][2] * Scale,
                            nan |-> FALSE, ID |-> i - 1]]
    /\ msKernel \in MsKernels
    /\ msTol \in MsTols
    /\ msMaxIter \in 0..MaxMaxIter
    /\ msCenters = <<>>
    /\ msCentersNil = TRUE
    /\ msPc = "idle"
    /\ msOp = "New"
    /\ msI = 0
    /\ msErr = FALSE
    /\ msDelta = [num |-> 0, nan |-> FALSE]
    /\ msShifts = 0
    /\ msRet = "none"
    /\ msOut = NoOut

\* Cluster(), up to the loop: var err error; i := 0.
MsClusterCall ==
    /\ msPc = "idle"
    /\ msPc' = "shifting"
    /\ msOp' = "Cluster"
    /\ msI' = 0
    /\ msErr' = FALSE
    /\ msShifts' = 0
    /\ msRet' = "none"
    /\ msOut' = NoOut
    /\ UNCHANGED <<msValues, msPoints, msKernel, msTol, msMaxIter, msModes, msCenters,
                   msCentersNil, msDelta>>

\* One iteration of the loop of Cluster.  delta <= tol leaves the loop:
\* the centers are collated, copied into ms.centers and ms.ci, the values
\* are tagged and err is returned.  Otherwise err is set once i > maxIter and
\* the loop goes on.
MsShiftIter ==
    /\ msPc = "shifting"
    /\ msShifts < MaxShifts
    /\ LET s == Shift(msPoints, msKernel, msModes)
       IN  /\ msDelta' = s.delta
           /\ msShifts' = msShifts + 1
           /\ IF Converged(s.delta, msTol)
              THEN \E r \in collate(s.modes, Bandwidth(msKernel)) :
                       /\ msModes' = r.modes
                       /\ msCenters' = asCenters(r.centers)
                       /\ msCentersNil' = FALSE
                       /\ msValues' = tagValues(msValues, r.centers)
                       /\ msPc' = "idle"
                       /\ msRet' = IF msErr THEN "error" ELSE "nil"
                       /\ UNCHANGED <<msI, msErr>>
              ELSE /\ msModes' = s.modes
                   /\ msErr' = (msErr \/ msI > msMaxIter)
                   /\ msI' = msI + 1
                   /\ UNCHANGED <<msValues, msCenters, msCentersNil, msPc, msRet>>
    /\ UNCHANGED <<msPoints, msKernel, msTol, msMaxIter, msOp, msOut>>

\* ------------------------------------------------------------------------
\* k-means: reporting
\* ------------------------------------------------------------------------

RECURSIVE clustersFrom(_, _, _)
\* The second loop of Clusters: c[v.cluster] = append(c[v.cluster], i), with
\* the 0-based index i of the value.
clustersFrom(vals, i, c) ==
    IF i > Len(vals) THEN c
    ELSE clustersFrom(vals, i + 1,
             [c EXCEPT ![vals[i].cluster + 1] = Append(@, i - 1)])

\* Kmeans.Clusters (called with km.means # nil).
Clusters(ms, vals) == clustersFrom(vals, 1, [i \in 1..Len(ms) |-> <<>>])

\* Kmeans.Within: nil when km.means is nil; otherwise one sum per center,
\* as num/den (den = 0 is NaN).  km.means[v.cluster] panics for a cluster
\* index that is not below len(km.means).
KmWithin(ms, isNil, vals) ==
    IF isNil THEN [nil |-> TRUE, panic |-> FALSE, ss |-> <<>>]
    ELSE IF \E i \in 1..Len(vals) : vals[i].cluster >= Len(ms)
    THEN [nil |-> FALSE, panic |-> TRUE, ss |-> <<>>]
    ELSE [nil |-> FALSE, panic |-> FALSE,
          ss |-> [c \in 1..Len(ms) |->
                    LET S == {i \in 1..Len(vals) : vals[i].cluster = c - 1}
                    IN  IF S = {} THEN [num |-> 0, den |-> 1]
                        ELSE [num |-> SumOfSet([i \in 1..Len(vals) |->
                                                   SqDist(vals[i], ms[c]).num], S),
                              den |-> ms[c].den * ms[c].den]]]

\* Kmeans.Total: the sum of squares of the data about their mean, as
\* num/den.
KmTotal(vals) ==
    LET n == Len(vals)
        sx == SumOfSet([i \in 1..n |-> vals[i].x], 1..n)
        sy == SumOfSet([i \in 1..n |-> vals[i].y], 1..n)
    IN  [num |-> SumOfSet([i \in 1..n |->
                              (sx - n * vals[i].x) * (sx - n * vals[i].x)
                              + (sy - n * vals[i].y) * (sy - n * vals[i].y)],
                          1..n),
         den |-> n * n]

\* Total() with the mean subtracted from the stored values in place.
KmTotalCallInPlace ==
    /\ kmPc = "idle"
    /\ kmOut' = [kmOut EXCEPT !.total = <<KmTotal(kmValues)>>]
    /\ kmValues' = [i \in 1..Len(kmValues) |->
                       [kmValues[i] EXCEPT
                           !.x = Len(kmValues) * @
                                   - SumOfSet([j \in 1..Len(kmValues) |-> kmValues[j].x],
                                              1..Len(kmValues))]]
    /\ UNCHANGED <<kmMeans, kmMeansNil, kmPc, kmOp, kmArg, kmI, kmD, kmRet,
                   kmIter, kmClustered>>

\* A call of Total() between two calls of Seed or Cluster.
KmTotalCall ==
    /\ kmPc = "idle"
    /\ kmOut' = [kmOut EXCEPT !.total = <<KmTotal(kmValues)>>]
    /\ UNCHANGED <<kmValues, kmMeans, kmMeansNil, kmPc, kmOp, kmArg, kmI, kmD, kmRet,
                   kmIter, kmClustered>>

\* A call of Within(): the index panic ends the caller.
KmWithinCall ==
    /\ kmPc = "idle"
    /\ LET w == KmWithin(kmMeans, kmMeansNil, kmValues)
       IN  /\ kmOut' = [kmOut EXCEPT !.within = <<w>>]
           /\ kmPc' = IF w.panic THEN "panicked" ELSE kmPc
    /\ UNCHANGED <<kmValues, kmMeans, kmMeansNil, kmOp, kmArg, kmI, kmD, kmRet,
                   kmIter, kmClustered>>

\* A call of Means(): the slice km.means itself.
KmMeansCall ==
    /\ kmPc = "idle"
    /\ kmOut' = [kmOut EXCEPT !.centers = <<[nil |-> kmMeansNil, means |-> kmMeans]>>]
    /\ UNCHANGED <<kmValues, kmMeans, kmMeansNil, kmPc, kmOp, kmArg, kmI, kmD, kmRet,
                   kmIter, kmClustered>>

\* ------------------------------------------------------------------------
\* mean shift: reporting
\* ------------------------------------------------------------------------

\* MeanShift.Total: the sum of squares of the data about their mean, as
\* num/den in squared units.
MsTotal(vals) ==
    LET n == Len(vals)
        sx == SumOfSet([i \in 1..n |-> vals[i].x], 1..n)
        sy == SumOfSet([i \in 1..n |-> vals[i].y], 1..n)
    IN  [num |-> SumOfSet([i \in 1..n |->
                              (sx - n * vals[i].x) * (sx - n * vals[i].x)
                              + (sy - n * vals[i].y) * (sy - n * vals[i].y)],
                          1..n),
         den |-> n * n]

\* A call of Total() between two calls of Cluster.
MsTotalCall ==
    /\ msPc = "idle"
    /\ msOut' = [msOut EXCEPT !.total = <<MsTotal(msValues)>>]
    /\ UNCHANGED <<msValues, msPoints, msKernel, msTol, msMaxIter, msModes, msCenters,
                   msCentersNil, msPc, msOp, msI, msErr, msDelta, msShifts, msRet>>

\* A call of Within(): the index panic ends the caller.
MsWithinCall ==
    /\ msPc = "idle"
    /\ LET w == MsWithin(msValues, msCenters, msCentersNil)
       IN  /\ msOut' = [msOut EXCEPT !.within = <<w>>]
           /\ msPc' = IF w.panic THEN "panicked" ELSE msPc
    /\ UNCHANGED <<msValues, msPoints, msKernel, msTol, msMaxIter, msModes, msCenters,
                   msCentersNil, msOp, msI, msErr, msDelta, msShifts, msRet>>

\* A call of Centers(): one entry per element of ms.centers, none for nil.
MsCentersCall ==
    /\ msPc = "idle"
    /\ msOut' = [msOut EXCEPT !.centers = <<msCenters>>]
    /\ UNCHANGED <<msValues, msPoints, msKernel, msTol, msMaxIter, msModes, msCenters,
                   msCentersNil, msPc, msOp, msI, msErr, msDelta, msShifts, msRet>>

\* ------------------------------------------------------------------------
\* Specifications: each engine on its own.
\* ------------------------------------------------------------------------

\* No mean shift engine was constructed.
MsAbsent ==
    /\ msValues = <<>>
    /\ msPoints = <<>>
    /\ msKernel = [kind |-> "Uniform", h |-> 1, oversample |-> 1, unit |-> 1]
    /\ msTol = 0
    /\ msMaxIter = 0
    /\ msModes = <<>>
    /\ msCenters = <<>>
    /\ msCentersNil = TRUE
    /\ msPc = "absent"
    /\ msOp = "none"
    /\ msI = 0
    /\ msErr = FALSE
    /\ msDelta = [num |-> 0, nan |-> FALSE]
    /\ msShifts = 0
    /\ msRet = "none"
    /\ msOut = NoOut

\* No k-means engine was constructed.
KmAbsent ==
    /\ kmValues = <<>>
    /\ kmMeans = <<>>
    /\ kmMeansNil = TRUE
    /\ kmPc = "absent"
    /\ kmOp = "none"
    /\ kmArg = 0
    /\ kmI = 0
    /\ kmD = <<>>
    /\ kmRet = "none"
    /\ kmIter = 0
    /\ kmClustered = FALSE
    /\ kmOut = NoOut

InitKm == KmInit /\ MsAbsent

NextKm ==
    \/ (\E k \in (0 - 1)..MaxK : SeedCall(k)) /\ UNCHANGED msVars
    \/ SeedRound /\ UNCHANGED msVars
    \/ ClusterCall /\ UNCHANGED msVars
    \/ LloydIter /\ UNCHANGED msVars

SpecKm == InitKm /\ [][NextKm]_vars

\* The loop of Cluster is sequential code that keeps running: an enabled
\* Lloyd iteration is eventually taken.
SpecKmFair == SpecKm /\ WF_vars(LloydIter /\ UNCHANGED msVars)

InitMs == MsInit /\ KmAbsent

NextMs ==
    \/ MsClusterCall /\ UNCHANGED kmVars
    \/ MsShiftIter /\ UNCHANGED kmVars

SpecMs == InitMs /\ [][NextMs]_vars

\* Either engine, with the calls of the reporting methods between the calls
\* of Seed and Cluster: a k-means engine or a mean shift engine was
\* constructed.
InitEngines == InitKm \/ InitMs

NextEngines ==
    \/ NextKm
    \/ NextMs
    \/ KmTotalCall /\ UNCHANGED msVars
    \/ KmWithinCall /\ UNCHANGED msVars
    \/ KmMeansCall /\ UNCHANGED msVars
    \/ MsTotalCall /\ UNCHANGED kmVars
    \/ MsWithinCall /\ UNCHANGED kmVars
    \/ MsCentersCall /\ UNCHANGED kmVars

SpecEngines == InitEngines /\ [][NextEngines]_vars

\* ------------------------------------------------------------------------
\* k-means: properties
\* ------------------------------------------------------------------------

KmN == Len(kmValues)

\* Squared Euclidean distance between two data points.
PointSqDist(v, w) == (v.x - w.x) * (v.x - w.x) + (v.y - w.y) * (v.y - w.y)

\* Squared distance from v to the nearest of the centers cs (data points).
MinSqDist(v, cs) ==
    CHOOSE m \in {PointSqDist(v, c) : c \in cs} :
        \A c \in cs : m <= PointSqDist(v, c)

\* A Seed round has run: kmD holds the weights it used, and the centers
\* chosen before it are kmMeans[1..kmI-1].
SeedRoundDone == kmOp = "Seed" /\ kmD # <<>>

\* C5: in every round of Seed the sampling weight of each point is its
\* squared distance to the nearest of the centers chosen before that round;
\* slots not chosen yet have no influence.
C5_WeightsUseChosenCentersOnly ==
    SeedRoundDone =>
        \A j \in 1..KmN :
            kmD[j] = MinSqDist(kmValues[j], Range(SubSeq(kmMeans, 1, kmI - 1)))

\* Cluster has returned nil.
ClusterReturnedOk == kmOp = "Cluster" /\ kmPc = "idle" /\ kmRet = "ok"

\* The center of the cluster of value i (1-based position of the value).
OwnCenter(i) == kmMeans[kmValues[i].cluster + 1]

\* p/q <= r/s and p/q < r/s for fractions with positive denominators.
FracLeq(a, b) == a.num * b.den <= b.num * a.den
FracLess(a, b) == a.num * b.den < b.num * a.den

\* C6: when Cluster returns nil, every point is assigned to a center at
\* minimal squared distance among the centers, the lowest-indexed one among
\* equally near centers, and reassigning changes no cluster.
C6_AssignedToNearestLowestIndex ==
    ClusterReturnedOk =>
        /\ \A i \in 1..KmN :
              /\ OwnCenter(i).den # 0
              /\ \A c \in 1..Len(kmMeans) :
                    kmMeans[c].den # 0 =>
                        /\ FracLeq(SqDist(kmValues[i], OwnCenter(i)),
                                   SqDist(kmValues[i], kmMeans[c]))
                        /\ c - 1 < kmValues[i].cluster =>
                              FracLess(SqDist(kmValues[i], OwnCenter(i)),
                                       SqDist(kmValues[i], kmMeans[c]))
        /\ assign(kmMeans, kmValues) = kmValues

\* Cluster returned nil with two centers at the same distance from a point.
C6_Witness ==
    /\ ClusterReturnedOk
    /\ \E i \in 1..KmN : \E c \in 1..Len(kmMeans) :
          /\ c - 1 > kmValues[i].cluster
          /\ kmMeans[c].den # 0
          /\ SqDist(kmValues[i], kmMeans[c]).num * SqDist(kmValues[i], OwnCenter(i)).den
               = SqDist(kmValues[i], OwnCenter(i)).num * SqDist(kmValues[i], kmMeans[c]).den

\* The 1-based positions of the values whose cluster is c (0-based).
MembersOf(c) == {i \in 1..KmN : kmValues[i].cluster = c}

\* C7: when Cluster returns nil, every center with members is at the mean
\* of its members (a center without members has the undefined mean, NaN),
\* counts are the numbers of members and sum to n, and Clusters() lists
\* exactly the members of each center, a partition of 0..n-1.
C7_CentersAreMeansOfMembers ==
    ClusterReturnedOk =>
        /\ \A c \in 1..Len(kmMeans) :
              /\ kmMeans[c].count = Cardinality(MembersOf(c - 1))
              /\ kmMeans[c].count = 0 => kmMeans[c].den = 0
              /\ kmMeans[c].count > 0 =>
                    /\ kmMeans[c].den > 0
                    /\ kmMeans[c].x * kmMeans[c].count =
                          kmMeans[c].den * SumOfSet([i \in 1..KmN |-> kmValues[i].x], MembersOf(c - 1))
                    /\ kmMeans[c].y * kmMeans[c].count =
                          kmMeans[c].den * SumOfSet([i \in 1..KmN |-> kmValues[i].y], MembersOf(c - 1))
        /\ SumOfSet([c \in 1..Len(kmMeans) |-> kmMeans[c].count], 1..Len(kmMeans)) = KmN
        /\ LET cl == Clusters(kmMeans, kmValues)
           IN  /\ Len(cl) = Len(kmMeans)
               /\ \A c \in 1..Len(cl) :
                     /\ Range(cl[c]) = {i - 1 : i \in MembersOf(c - 1)}
                     /\ Len(cl[c]) = Cardinality(MembersOf(c - 1))
               /\ \A i \in 0..(KmN - 1) :
                     Cardinality({c \in 1..Len(cl) : i \in Range(cl[c])}) = 1

\* Cluster returned nil with at least two centers that have members, one of
\* them with several.
C7_Witness ==
    /\ ClusterReturnedOk
    /\ \E c, e \in 1..Len(kmMeans) :
          c # e /\ kmMeans[c].count > 1 /\ kmMeans[e].count > 0

\* C8: Cluster on an engine that was never seeded (km.means is nil) returns
\* the "no centers" error and changes neither the values nor the means.
C8_UnseededClusterFailsUnchanged ==
    [][(kmPc = "idle" /\ kmMeansNil /\ kmOp' = "Cluster") =>
          /\ kmRet' = "no centers"
          /\ kmPc' = "idle"
          /\ kmValues' = kmValues
          /\ kmMeans' = kmMeans
          /\ kmMeansNil' = kmMeansNil]_kmVars

\* Cluster was called on an engine without means and returned the error.
C8_Witness == kmOp = "Cluster" /\ kmMeansNil /\ kmRet = "no centers"

\* C9: Seed(k) with k < 1 or k > n fails and leaves the means and the
\* values as they were.
C9_InvalidSeedFailsUnchanged ==
    [][(kmPc = "idle" /\ kmOp' = "Seed" /\ (kmArg' < 1 \/ kmArg' > KmN)) =>
          /\ kmRet' \in {"panic", "invalid"}
          /\ kmValues' = kmValues
          /\ kmMeans' = kmMeans
          /\ kmMeansNil' = kmMeansNil]_kmVars

RECURSIVE Factorial(_)
Factorial(n) == IF n <= 1 THEN 1 ELSE n * Factorial(n - 1)

\* No value is assigned to a NaN center, so that Within() is finite.
WcssDefined(vals, ms) == \A i \in 1..Len(vals) : ms[vals[i].cluster + 1].den # 0

\* The sum over all centers of Within(), times Factorial(n)^2 (every
\* denominator is the square of a count, and divides it).
WcssScaled(vals, ms) ==
    LET L == Factorial(Len(vals))
    IN  SumOfSet([i \in 1..Len(vals) |->
                     LET m == ms[vals[i].cluster + 1]
                     IN  SqDist(vals[i], m).num * (L \div m.den) * (L \div m.den)],
                 1..Len(vals))

\* C10: from the end of one Lloyd iteration (recenter + reassign) to the end
\* of the next the total within-cluster sum of squares is defined and does
\* not increase.
C10_WcssNeverIncreases ==
    [][(kmPc = "lloyd" /\ kmIter >= 1) =>
          /\ WcssDefined(kmValues, kmMeans)
          /\ WcssDefined(kmValues', kmMeans')
          /\ WcssScaled(kmValues', kmMeans') <= WcssScaled(kmValues, kmMeans)]_kmVars


\* C11: a Cluster call on a seeded engine that has entered the Lloyd loop
\* reaches an iteration in which no value changes its cluster and returns
\* nil, also when a center is left without members.
C11_LloydTerminates == (kmPc = "lloyd") ~> (kmPc = "idle" /\ kmRet = "ok")

\* Cluster returned nil after several Lloyd iterations with a center that
\* has no members.
C11_Witness ==
    /\ ClusterReturnedOk
    /\ kmIter >= 3
    /\ \E c \in 1..Len(kmMeans) : kmMeans[c].count = 0

\* C12: Within() is nil in every state between calls in which Cluster has
\* not run yet, Seed or not; after Cluster has returned nil it has one entry
\* per center, the sum of the squared distances of the center's members to
\* the center.
C12_WithinNilBeforeCluster ==
    /\ (kmPc = "idle" /\ ~kmClustered) =>
          KmWithin(kmMeans, kmMeansNil, kmValues).nil
    /\ ClusterReturnedOk =>
          LET w == KmWithin(kmMeans, kmMeansNil, kmValues)
          IN  /\ ~w.nil
              /\ ~w.panic
              /\ Len(w.ss) = Len(kmMeans)
              /\ \A c \in 1..Len(kmMeans) :
                    w.ss[c].num * kmMeans[c].den * kmMeans[c].den =
                        w.ss[c].den *
                        SumOfSet([i \in 1..KmN |-> SqDist(kmValues[i], kmMeans[c]).num],
                                 MembersOf(c - 1))


\* The data points are pairwise distinct.
PointsDistinct ==
    \A i, j \in 1..KmN : i # j => PointSqDist(kmValues[i], kmValues[j]) # 0

\* C14: over pairwise distinct points, once Seed(n) and Cluster() have run
\* every center has exactly one member and lies on it, and Within() is all
\* zeros, whatever the draws of Seed were.
C14_SeedAllPointsGivesSingletons ==
    (ClusterReturnedOk /\ Len(kmMeans) = KmN /\ PointsDistinct) =>
        /\ \A c \in 1..KmN : kmMeans[c].count = 1
        /\ \A i \in 1..KmN :
              /\ OwnCenter(i).den # 0
              /\ SqDist(kmValues[i], OwnCenter(i)).num = 0
        /\ LET w == KmWithin(kmMeans, kmMeansNil, kmValues)
           IN  /\ ~w.nil
               /\ ~w.panic
               /\ \A c \in 1..Len(w.ss) : w.ss[c].num = 0

\* The data of a newly built engine: the values before any Cluster call.
newValues(vals) == [i \in 1..Len(vals) |-> [vals[i] EXCEPT !.cluster = 0]]

\* km.means of a newly built engine after make and the choice of the first
\* center, rand.Intn giving r - 1.
seedFirst(vals, k, r) ==
    [i \in 1..k |-> IF i = 1 THEN CenterAt(vals[r]) ELSE ZeroCenter]

\* km.means after round i of the loop of Seed on the means ms, rand.Float64
\* giving the draw a.
seedRound(vals, ms, i, a) ==
    LET j == pick(seedWeights(ms, vals), a)
    IN  [ms EXCEPT ![i + 1] = [@ EXCEPT !.x = vals[j + 1].x, !.y = vals[j + 1].y]]

\* The means ms as they were when the centers 1..i were chosen.
seedPrefix(ms, i) == [j \in 1..Len(ms) |-> IF j <= i THEN ms[j] ELSE ZeroCenter]

\* Seed has returned.
SeedReturned == kmOp = "Seed" /\ kmPc = "idle" /\ kmRet = "ok"

\* C19: the centers Seed(k) leaves are those Seed(k) leaves on a newly
\* built engine over the same data for some draws, whatever calls of Seed
\* and Cluster came before: the first center is a point drawn by rand.Intn
\* and every later center is the point the round picks for some draw of
\* rand.Float64, from the data and the centers chosen so far alone.
C19_SeedIgnoresEarlierCalls ==
    SeedReturned =>
        /\ Len(kmMeans) = kmArg
        /\ \E r \in 1..KmN :
              seedPrefix(kmMeans, 1) = seedFirst(newValues(kmValues), kmArg, r)
        /\ \A i \in 1..(kmArg - 1) :
              \E a \in 0..(DrawDen - 1) :
                  seedPrefix(kmMeans, i + 1) =
                      seedRound(newValues(kmValues), seedPrefix(kmMeans, i), i, a)

\* Seed(k) with k >= 2 has returned on an engine that was clustered before
\* and still holds the cluster indices of that clustering.
C19_Witness ==
    /\ SeedReturned
    /\ kmArg >= 2
    /\ kmClustered
    /\ \E i \in 1..KmN : kmValues[i].cluster # 0

\* Every value carries the index of a center of ms.
IndicesBelow(vals, ms) == \A i \in 1..Len(vals) : vals[i].cluster < Len(ms)

\* C26: with every Seed called with 1 <= k <= n, the cluster index of every
\* value is below the number of centers when Cluster returns and stays so
\* when Seed is called after it with another k, so that Within() and
\* Clusters() index inside the centers.
C26_ClusterIndexBelowCenters ==
    [][/\ (kmOp' = "Cluster" /\ kmPc' = "idle" /\ kmRet' = "ok") =>
             IndicesBelow(kmValues', kmMeans')
       /\ (/\ ClusterReturnedOk
           /\ kmArg \in 1..KmN
           /\ kmOp' = "Seed"
           /\ kmArg' \in 1..KmN) =>
             /\ IndicesBelow(kmValues', kmMeans')
             /\ ~KmWithin(kmMeans', kmMeansNil', kmValues').panic]_kmVars

\* C27: in every round of Seed the cumulative-sum inversion gives an index
\* in 0..n-1 for every draw, and while a point of positive sampling weight
\* exists the point chosen has positive weight: no point that coincides
\* with a center chosen before is chosen again.
C27_SeedNeverPicksZeroWeight ==
    SeedRoundDone =>
        /\ \A a \in 0..(DrawDen - 1) : pick(kmD, a) \in 0..(KmN - 1)
        /\ (\E j \in 1..KmN : kmD[j] > 0) =>
              \E j \in 1..KmN :
                  /\ kmD[j] > 0
                  /\ kmMeans[kmI].x = kmValues[j].x
                  /\ kmMeans[kmI].y = kmValues[j].y

\* ------------------------------------------------------------------------
\* mean shift: properties
\* ------------------------------------------------------------------------

MsN == Len(msValues)

\* MeanShift.Cluster has returned.
MsReturned == msOp = "Cluster" /\ msPc = "idle"

\* The places (center, position) at which the original index i is listed.
MemberPlaces(i) ==
    {<<c, p>> \in (1..Len(msCenters)) \X (1..MsN) :
        p <= Len(msCenters[c].indices) /\ msCenters[c].indices[p] = i}

\* C1: after Cluster returns, the member lists of the centers partition
\* 0..n-1: every original index is listed exactly once.
C1_MembersPartitionIndices ==
    MsReturned => \A i \in 0..(MsN - 1) : Cardinality(MemberPlaces(i)) = 1

\* C2: the loop of Cluster is left once the iteration count exceeds maxIter,
\* so that one Cluster call makes at most maxIter + 2 Shift calls.
C2_ShiftCallsBounded == msShifts <= msMaxIter + 2

\* C3: when Cluster returns the maximum-iterations error the centers are
\* populated, every value carries the index of a center that lists it, and
\* Within() has one entry per center.
C3_ErrorStillCollates ==
    (MsReturned /\ msRet = "error") =>
        /\ ~msCentersNil
        /\ Len(msCenters) > 0
        /\ \A j \in 1..MsN :
              /\ msValues[j].cluster < Len(msCenters)
              /\ (j - 1) \in Range(msCenters[msValues[j].cluster + 1].indices)
        /\ Len(Within(msValues, msCenters)) = Len(msCenters)

\* C4: Cluster returns nil exactly when a Shift returns delta <= tol before
\* the iteration count exceeds maxIter; once the count exceeds maxIter
\* without such a Shift the call returns the maximum-iterations error.
C4_NilIffConvergedWithinCap ==
    /\ msErr => (msPc = "idle" /\ msRet = "error")
    /\ (MsReturned /\ ~msErr) => msRet = "nil"

\* C13: a Cluster call on an engine that already holds the result of an
\* earlier call returns a rebuilt result: the member lists partition
\* 0..n-1, there is at least one center and Within() has one entry per
\* center.
C13_LaterClusterRebuildsResult ==
    [][(msPc = "shifting" /\ ~msCentersNil /\ msPc' = "idle") =>
          /\ \A i \in 0..(MsN - 1) : Cardinality(MemberPlaces(i))' = 1
          /\ Len(msCenters') > 0
          /\ LET w == MsWithin(msValues', msCenters', msCentersNil')
             IN  ~w.nil /\ ~w.panic /\ Len(w.ss) = Len(msCenters')]_msVars
\* C15: no Shift divides by a weight sum of zero: no mode position and no
\* delta is ever undefined (NaN), the run having been aborted before.
C15_NoUndefinedModeOrDelta ==
    /\ ~msDelta.nan
    /\ \A i \in 1..Len(msModes) : ~msModes[i].nan
\* C16: in every state of an engine, before the first Shift and after any
\* number of them, Bandwidth() of its kernel is the configured h.
C16_BandwidthIsConfigured ==
    msPc # "absent" => Bandwidth(msKernel) = msKernel.h * msKernel.unit
\* No two points of the engine lie within the query radius of the kernel of
\* each other.
Isolated ==
    \A i, j \in 1..MsN :
        i # j => PointSqDist(msValues[i], msValues[j]) > hitsDist(msKernel)

WeightsPositive == \A i \in 1..MsN : msValues[i].w > 0

\* The result is one cluster per original index, each value tagged with
\* the cluster that lists it, and Within() is all zeros.
SingletonResult(vals, cen, isNil) ==
    /\ Len(cen) = Len(vals)
    /\ \A i \in 1..Len(vals) :
          \E c \in 1..Len(cen) : cen[c].indices = <<i - 1>> /\ vals[i].cluster = c - 1
    /\ LET w == MsWithin(vals, cen, isNil)
       IN  /\ ~w.nil
           /\ ~w.panic
           /\ \A c \in 1..Len(w.ss) : w.ss[c].num = 0

\* C17: over points of positive weight no two of which lie within the
\* query radius of each other, the first Shift of the first Cluster call
\* returns delta 0 and, the tolerance not being negative, Cluster returns
\* nil with n singleton clusters and Within() all zeros.
C17_IsolatedPointsStaySingletons ==
    [][(msPc = "shifting" /\ msCentersNil /\ msShifts = 0 /\ Isolated /\ WeightsPositive) =>
          /\ msDelta' = [num |-> 0, nan |-> FALSE]
          /\ msTol >= 0 =>
                /\ msPc' = "idle"
                /\ msRet' = "nil"
                /\ SingletonResult(msValues', msCenters', msCentersNil')]_msVars
\* C20: in the collation of a Cluster call that is about to return, every
\* retained center lists the index of the mode it was made for: no mode
\* claimed before its turn is the seed of a center.
C20_SeedIsMemberOfItsCenter ==
    (msPc = "shifting" /\ msShifts < MaxShifts) =>
        LET s == Shift(msPoints, msKernel, msModes)
        IN  Converged(s.delta, msTol) =>
                \A r \in collate(s.modes, Bandwidth(msKernel)) :
                    \A c \in 1..Len(r.centers) :
                        r.centers[c].seed \in Range(r.centers[c].indices)

\* C21: in the collation of a Cluster call that has returned, a mode q is
\* among the neighbours of a mode p exactly when the squared distance of
\* their positions is at most h * h, h the configured bandwidth of the
\* kernel, Uniform or TruncGauss.
C21_CollateNeighboursWithinH ==
    MsReturned =>
        \A p, q \in 1..Len(msModes) :
            (~msModes[p].nan /\ ~msModes[q].nan) =>
                (q \in Range(NearestSetModes(msModes, Bandwidth(msKernel), p))
                    <=> ModeSqDist(msModes[q], msModes[p])
                            <= msKernel.h * msKernel.h * Scale * Scale)

\* C22: after Cluster returns, a value carries the cluster index c exactly
\* when its original index is a member of the center c; every cluster index
\* is an index of a center and every center has a member.
C22_ValuesAgreeWithCenters ==
    MsReturned =>
        /\ \A j \in 1..MsN :
              /\ msValues[j].cluster >= 0
              /\ msValues[j].cluster < Len(msCenters)
              /\ \A c \in 1..Len(msCenters) :
                    msValues[j].cluster = c - 1
                        <=> (j - 1) \in Range(msCenters[c].indices)
        /\ \A c \in 1..Len(msCenters) : msCenters[c].indices # <<>>

\* The original points whose squared distance to the position of the mode c
\* is at most h * h (none for an undefined position).
WithinBandwidth(c, h) ==
    IF c.nan THEN {}
    ELSE {j \in 1..MsN :
             (msPoints[j].x * Scale - c.x) * (msPoints[j].x * Scale - c.x)
             + (msPoints[j].y * Scale - c.y) * (msPoints[j].y * Scale - c.y)
                 <= h * h * Scale * Scale}

\* The position p (in units of 1/Scale) is sum / weight to the nearest unit.
IsMean(p, sum, weight) ==
    /\ 2 * (p * weight - sum * Scale) <= weight
    /\ 2 * (sum * Scale - p * weight) <= weight

\* C23: one Shift of the Uniform kernel moves every mode to the mean,
\* weighted by the point weights, of exactly the original points whose
\* squared distance to the mode's position before the Shift is at most
\* h * h (the undefined mean when their weights sum to 0), and returns
\* as delta the sum over the modes and coordinates of the squared
\* displacements: delta is 0 exactly when no mode moved.
C23_UniformShiftIsWeightedMean ==
    [][(msPc = "shifting" /\ msKernel.kind = "Uniform" /\ msShifts' = msShifts + 1) =>
          /\ Len(msModes') = Len(msModes)
          /\ \A i \in 1..Len(msModes) :
                LET H == WithinBandwidth(msModes[i], msKernel.h)
                    W == SumOfSet([j \in 1..MsN |-> msPoints[j].w], H)
                IN  IF W = 0 THEN msModes'[i].nan
                    ELSE /\ ~msModes'[i].nan
                         /\ IsMean(msModes'[i].x,
                                   SumOfSet([j \in 1..MsN |-> msPoints[j].w * msPoints[j].x], H),
                                   W)
                         /\ IsMean(msModes'[i].y,
                                   SumOfSet([j \in 1..MsN |-> msPoints[j].w * msPoints[j].y], H),
                                   W)
          /\ msDelta'.nan = (\E i \in 1..Len(msModes) : msModes'[i].nan)
          /\ ~msDelta'.nan =>
                msDelta'.num =
                    SumOfSet([i \in 1..Len(msModes) |->
                                 (msModes'[i].x - msModes[i].x) * (msModes'[i].x - msModes[i].x)
                                 + (msModes'[i].y - msModes[i].y) * (msModes'[i].y - msModes[i].y)],
                             1..Len(msModes))
          /\ (~msDelta'.nan /\ msDelta'.num = 0) <=>
                \A i \in 1..Len(msModes) :
                    /\ ~msModes'[i].nan
                    /\ msModes'[i].x = msModes[i].x
                    /\ msModes'[i].y = msModes[i].y]_msVars

\* The first Shift of a Uniform kernel has moved a mode to the mean of
\* points of different weights, one of them at the distance h itself.
C23_Witness ==
    /\ msKernel.kind = "Uniform"
    /\ msShifts = 1
    /\ msCentersNil
    /\ ~msDelta.nan
    /\ msDelta.num > 0
    /\ \E i, j, k \in 1..MsN :
          /\ msPoints[j].w > 0
          /\ msPoints[k].w > 0
          /\ msPoints[j].w # msPoints[k].w
          /\ PointSqDist(msPoints[i], msPoints[j]) = msKernel.h * msKernel.h
          /\ PointSqDist(msPoints[i], msPoints[k]) <= msKernel.h * msKernel.h
          /\ (msModes[i].x # msPoints[i].x * Scale \/ msModes[i].y # msPoints[i].y * Scale)

\* C25: in every Shift of a TruncGauss kernel, of two neighbours of a mode
\* that have the same point weight the one farther from the mode never has
\* the larger kernel weight, so that a neighbour at distance 0 has the
\* largest.
C25_FartherNeverHeavier ==
    (msPc = "shifting" /\ msKernel.kind = "TruncGauss") =>
        \A i \in 1..Len(msModes) :
            \A j, k \in NearestSetData(msPoints, msKernel, msModes[i]) :
                (/\ msPoints[j].w = msPoints[k].w
                 /\ PointModeSqDist(msPoints[j], msModes[i])
                       > PointModeSqDist(msPoints[k], msModes[i]))
                    => kfn(msPoints, msKernel, msModes[i], j)
                          <= kfn(msPoints, msKernel, msModes[i], k)

C18_ReportsRepeatable ==
    [][/\ kmOut' # NoOut =>
             /\ UNCHANGED <<kmValues, kmMeans, kmMeansNil>>
             /\ \A f \in {"total", "within", "centers"} :
                   kmOut[f] # <<>> => kmOut'[f] = kmOut[f]
       /\ msOut' # NoOut =>
             /\ UNCHANGED <<msValues, msModes, msCenters, msCentersNil, msKernel,
                            msTol, msMaxIter>>
             /\ \A f \in {"total", "within", "centers"} :
                   msOut[f] # <<>> => msOut'[f] = msOut[f]]_vars

\* All three reports were taken from a mean shift engine that holds a result
\* of two or more centers.
C18_Witness ==
    /\ msPc = "idle"
    /\ Len(msCenters) >= 2
    /\ msOut.total # <<>>
    /\ msOut.within # <<>>
    /\ msOut.centers # <<>>
\* The coordinates of the points are the same in vals and in vals2.
SamePoints(vals, vals2) ==
    /\ Len(vals2) = Len(vals)
    /\ \A j \in 1..Len(vals) :
          /\ vals2[j].x = vals[j].x
          /\ vals2[j].y = vals[j].y

\* C24: no step of an engine, Seed, Shift, Cluster or a report, changes the
\* coordinates of the points held in the values of the engine or in the
\* tree of the kernel (nor their weights): only the modes, the centers and
\* the cluster indices change, and Total() of the engine stays what it was.
C24_PointsNeverChange ==
    [][/\ kmValues' # kmValues =>
             /\ SamePoints(kmValues, kmValues')
             /\ KmTotal(kmValues') = KmTotal(kmValues)
       /\ msValues' # msValues =>
             /\ SamePoints(msValues, msValues')
             /\ \A j \in 1..Len(msValues) : msValues'[j].w = msValues[j].w
             /\ MsTotal(msValues') = MsTotal(msValues)
       /\ msPoints' = msPoints]_vars

\* Total() was taken from a mean shift engine after a Cluster call that
\* moved a mode away from its point and tagged a value with a cluster other
\* than 0.
C24_Witness ==
    /\ MsReturned
    /\ msOut.total # <<>>
    /\ \E j \in 1..MsN : msValues[j].cluster # 0
    /\ \E i \in 1..MsN :
          ~msModes[i].nan /\ msModes[i].x # msPoints[i].x * Scale

====
